---- MODULE Spec2Model ----
(***************************************************************************)
(* The wallet ledger of COOUCart: the backend tables wallets, transactions *)
(* and orders with their row-level-security policies, CHECK constraints    *)
(* and triggers (wallet_system_setup.sql), and the client-side             *)
(* WalletProvider (contexts/WalletContext.tsx) that drives them.           *)
(***************************************************************************)
EXTENDS Integers, Sequences, FiniteSets

\* ------------------------------------------------------------------ bounds
MaxTx == 3
MaxOrders == 2
MaxAmount == 1
MaxBalance == 2
MaxSqlTx == 2
MaxClock == 1
MaxSteps == 4

\* ------------------------------------------------- constants of the source
\* setTimeout(..., 2000) of fundWallet and setTimeout(..., 3000) of
\* withdrawFunds, in milliseconds.
DepositDelay == 2000
WithdrawDelay == 3000
\* The step in which the clock is advanced over the delays: their difference,
\* which divides both.
ClockStep == WithdrawDelay - DepositDelay

\* ------------------------------------------------------------- vocabulary
NULL == "null"
Users == {"c1", "b1"}
Products == {"p1"}
ProductIds == {"p1", "px"}
Amounts == -1..MaxAmount
Statuses == {"pending", "completed", "failed", "cancelled"}

Role(u) == IF u = "c1" THEN "customer" ELSE "business"
ProductOwner(p) == "b1"

NoWallet == [id |-> NULL, balance |-> 0]
NoPay == [pc |-> "idle", profile |-> NULL, wallet |-> NULL, product |-> NULL,
          amount |-> 0, order |-> 0, tx |-> 0, base |-> 0]
NoLast == [op |-> "none", result |-> NULL, error |-> NULL, wallet |-> NULL, tx |-> 0,
           order |-> 0, old |-> NULL, new |-> NULL, amount |-> 0, before |-> 0]

VARIABLES
  profiles,     \* table profiles: the ids of its rows
  walletRows,   \* table wallets: owner -> how many rows have this user_id
  wallets,      \* table wallets: owner -> balance (one wallet per profile)
  txs,          \* table transactions, in creation order; the id is the index
  orders,       \* table orders, in creation order; the id is the index
  profile,      \* the signed-in profile (auth.uid()), or NULL
  wallet,       \* WalletProvider state `wallet`: the cached wallets row
  transactions, \* WalletProvider state `transactions`: the cached rows
  now,          \* Date.now(), in milliseconds from the first one looked at
  timers,       \* ids of transactions with a setTimeout callback outstanding
  pay,          \* the makePayment call in flight
  last          \* what the last step was and returned (observation only)

vars == <<profiles, walletRows, wallets, txs, orders, profile, wallet, transactions, now, timers, pay, last>>

\* The shape of the rows and of the provider's state.
TypeOK ==
  /\ profiles \subseteq Users
  /\ walletRows \in [Users -> Nat]
  /\ wallets \in [Users -> Int]
  /\ \A t \in DOMAIN txs :
       /\ txs[t].wallet \in Users
       /\ txs[t].type \in {"deposit", "withdrawal", "payment", "refund"}
       /\ txs[t].amount \in Int
       /\ txs[t].status \in Statuses
       /\ txs[t].reference \in {"DEP", "WTH", "PAY"} \X (0..(MaxSteps * ClockStep + MaxClock))
       /\ txs[t].orderId \in 0..Len(orders)
  /\ \A o \in DOMAIN orders :
       /\ orders[o].buyer \in Users
       /\ orders[o].product \in Products
       /\ orders[o].amount > 0
       /\ orders[o].status \in {"pending", "paid", "shipped", "delivered", "cancelled"}
       /\ orders[o].payment_transaction_id \in 0..Len(txs)
  /\ profile \in Users \cup {NULL}
  /\ wallet = NoWallet \/ (wallet.id \in Users /\ wallet.balance \in Int)
  /\ \A i \in DOMAIN transactions : transactions[i].id \in DOMAIN txs
  /\ now \in 0..(MaxSteps * ClockStep + MaxClock)
  /\ timers \subseteq DOMAIN txs
  /\ pay.pc \in {"idle", "order", "tx", "update"}

\* ------------------------------------------------- schema: constraints, RLS
\* The constraint left off the column.
BalanceCheckOff(b) == TRUE

\* wallets.balance CHECK (balance >= 0)
BalanceCheck(b) == b >= 0

\* wallets UNIQUE(user_id), with the constraint left off.
WalletUniqueOff(u, rows) == TRUE

\* wallets UNIQUE(user_id): no row of the table has this user_id yet.
WalletUnique(u, rows) == rows[u] = 0

\* policy "Users can insert own wallet"
CanInsertWallet(uid, u) == uid # NULL /\ uid = u
\* Row-level security is enabled on wallets and no policy is FOR DELETE.
CanDeleteWallet(uid, u) == FALSE
\* policy "Users can update own wallet" (USING and WITH CHECK)
CanUpdateWallet(uid, u) == uid # NULL /\ uid = u
\* policy "Users can view own wallet"
CanViewWallet(uid, w) == uid = w
\* policy "Users can view own transactions"
CanViewTransaction(uid, w) == uid # NULL /\ uid = w
\* The INSERT policy admitting nobody.
CanInsertTransactionNever(uid, w) == FALSE

\* policy "Users can insert own transactions"
CanInsertTransaction(uid, w) == uid # NULL /\ uid = w
\* policy "Users can update own transactions"
CanUpdateTransaction(uid, w) == uid # NULL /\ uid = w
\* The INSERT policy on orders without its test of the role.
CanCreateOrderAnyRole(uid, buyer) == uid # NULL /\ uid = buyer
\* policy "Customers can create orders"
CanCreateOrder(uid, buyer) == uid # NULL /\ uid = buyer /\ Role(uid) = "customer"
\* policy "Product owners can update order status"
CanUpdateOrder(uid, product) == uid # NULL /\ ProductOwner(product) = uid

\* ------------------------------------------------------------- the trigger
\* update_wallet_balance(), AFTER UPDATE ON transactions FOR EACH ROW:
\* the balance the wallet row is left with.
\* The two tests of the trigger without their look at OLD.status.
EnteringCompletedAlways(old, new) == new = "completed"
LeavingCompletedAlways(old, new) == new \in {"cancelled", "failed"}

EnteringCompleted(old, new) == new = "completed" /\ old # "completed"
LeavingCompleted(old, new) == new \in {"cancelled", "failed"} /\ old = "completed"

update_wallet_balance(old, new, amount, balance) ==
  LET b1 == IF EnteringCompleted(old, new) THEN balance + amount ELSE balance
  IN  IF LeavingCompleted(old, new) THEN b1 - amount ELSE b1

\* The status update that rewrites the amount as well.
UpdateTransactionRewriting(uid, t, s) ==
  [txs |-> [txs EXCEPT ![t].status = s, ![t].amount = 0], wallets |-> wallets,
   applied |-> TRUE]

\* UPDATE transactions SET status = s WHERE id = t, run as uid: the row is
\* visible to the statement only under the UPDATE policy; the trigger's
\* UPDATE wallets runs in the same statement, so a violated CHECK aborts both.
UpdateTransaction(uid, t, s) ==
  LET row == txs[t]
      nb  == update_wallet_balance(row.status, s, row.amount, wallets[row.wallet])
      touched == EnteringCompleted(row.status, s) \/ LeavingCompleted(row.status, s)
  IN  IF ~CanUpdateTransaction(uid, row.wallet)
        THEN [txs |-> txs, wallets |-> wallets, applied |-> FALSE]
      ELSE IF touched /\ ~BalanceCheck(nb)
        THEN [txs |-> txs, wallets |-> wallets, applied |-> FALSE]
      ELSE [txs |-> [txs EXCEPT ![t].status = s],
            wallets |-> [wallets EXCEPT ![row.wallet] = nb],
            applied |-> TRUE]

\* ------------------------------------------------------- read projections
\* loadWallet(): SELECT * FROM wallets WHERE user_id = p, run as uid, against
\* the table w; maybeSingle() yields null when the policy hides the row.
LoadWallet(p, uid, w) ==
  IF CanViewWallet(uid, p) THEN [id |-> p, balance |-> w[p]] ELSE NoWallet

\* The rows of wallet w among the first n of table t, newest first.
RECURSIVE TransactionsOf(_, _, _)
TransactionsOf(w, t, n) ==
  IF n = 0 THEN <<>>
  ELSE IF t[n].wallet = w
    THEN <<[id |-> n, type |-> t[n].type, amount |-> t[n].amount, status |-> t[n].status]>>
         \o TransactionsOf(w, t, n - 1)
    ELSE TransactionsOf(w, t, n - 1)

\* loadTransactions(): SELECT * FROM transactions WHERE wallet_id = w ORDER BY
\* created_at DESC, run as uid, against the table t; the policy hides the
\* rows of another user's wallet, and setTransactions(data || []) follows.
LoadTransactions(w, uid, t) ==
  IF CanViewTransaction(uid, w) THEN TransactionsOf(w, t, Len(t)) ELSE <<>>

\* ------------------------------------------------------------------- Init
Init ==
  /\ profiles = Users
  /\ walletRows = [u \in Users |-> 1]
  /\ wallets = [u \in Users |-> 0]
  /\ txs = <<>>
  /\ orders = <<>>
  /\ profile = NULL
  /\ wallet = NoWallet
  /\ transactions = <<>>
  /\ now = 0
  /\ timers = {}
  /\ pay = NoPay
  /\ last = NoLast

\* "Create wallets for existing users": INSERT INTO wallets (user_id) SELECT id
\* FROM profiles WHERE id NOT IN (SELECT user_id FROM wallets).
Backfill(pr, rows) == [u \in Users |-> IF u \in pr /\ rows[u] = 0 THEN 1 ELSE rows[u]]

\* The database right after the setup script, run over any profiles that
\* were there before it; nobody is signed in.
InitSchema ==
  /\ profiles \in SUBSET Users
  /\ walletRows = Backfill(profiles, [u \in Users |-> 0])
  /\ wallets = [u \in Users |-> 0]
  /\ txs = <<>>
  /\ orders = <<>>
  /\ profile = NULL
  /\ wallet = NoWallet
  /\ transactions = <<>>
  /\ now = 0
  /\ timers = {}
  /\ pay = NoPay
  /\ last = NoLast

\* ----------------------------------------------------- profiles and wallets
\* INSERT INTO wallets (user_id) VALUES (u), run as uid: the row counts after
\* it, or as they were when the policy's WITH CHECK, the foreign key to
\* profiles or UNIQUE(user_id) rejects it (pr: the profiles of the moment).
InsertWallet(uid, u, pr, rows) ==
  IF CanInsertWallet(uid, u) /\ u \in pr /\ WalletUnique(u, rows)
    THEN [rows EXCEPT ![u] = @ + 1]
    ELSE rows

\* What a statement on profiles or wallets did for user u.
Stated(op, u, applied) ==
  [NoLast EXCEPT !.op = op, !.result = IF applied THEN "applied" ELSE "unchanged",
                 !.wallet = u]

\* INSERT INTO profiles (id) by the user u who signs up, and the trigger
\* create_wallet_on_profile_insert (AFTER INSERT, FOR EACH ROW): the wallet
\* row with its DEFAULT balance 0, or the whole statement undone.
CreateProfile(u) ==
  /\ profile = NULL
  /\ u \notin profiles
  /\ LET rows == InsertWallet(u, u, profiles \cup {u}, walletRows)
     IN  IF rows = walletRows
           THEN /\ last' = Stated("createProfile", u, FALSE)
                /\ UNCHANGED <<profiles, walletRows, wallets>>
           ELSE /\ profiles' = profiles \cup {u}
                /\ walletRows' = rows
                /\ wallets' = [wallets EXCEPT ![u] = 0]
                /\ last' = Stated("createProfile", u, TRUE)
  /\ UNCHANGED <<txs, orders, profile, wallet, transactions, now, timers, pay>>

\* INSERT INTO wallets (user_id) VALUES (auth.uid()) by the signed-in user.
InsertOwnWallet ==
  /\ profile # NULL
  /\ walletRows' = InsertWallet(profile, profile, profiles, walletRows)
  /\ last' = Stated("insertWallet", profile, walletRows' # walletRows)
  /\ UNCHANGED <<profiles, wallets, txs, orders, profile, wallet, transactions, now,
                 timers, pay>>

\* DELETE FROM wallets WHERE user_id = auth.uid() by the signed-in user: the
\* rows the DELETE policies show to the statement are deleted.
DeleteOwnWallet ==
  /\ profile # NULL
  /\ walletRows' = IF CanDeleteWallet(profile, profile)
                     THEN [walletRows EXCEPT ![profile] = 0] ELSE walletRows
  /\ last' = Stated("deleteWallet", profile, walletRows' # walletRows)
  /\ UNCHANGED <<profiles, wallets, txs, orders, profile, wallet, transactions, now,
                 timers, pay>>

\* UPDATE wallets SET balance = b WHERE user_id = auth.uid() by the signed-in
\* user: the row changes under the UPDATE policy unless CHECK (balance >= 0)
\* rejects the new value.
UpdateOwnWallet(b) ==
  /\ profile # NULL
  /\ wallets' = IF CanUpdateWallet(profile, profile) /\ walletRows[profile] > 0
                    /\ BalanceCheck(b)
                  THEN [wallets EXCEPT ![profile] = b] ELSE wallets
  /\ last' = Stated("updateWallet", profile, wallets' # wallets)
  /\ UNCHANGED <<profiles, walletRows, txs, orders, profile, wallet, transactions, now,
                 timers, pay>>

\* ------------------------------------------------------------------ clock
\* A millisecond passes.
Tick ==
  /\ now % ClockStep < MaxClock
  /\ now' = now + 1
  /\ last' = NoLast
  /\ UNCHANGED <<profiles, walletRows, wallets, txs, orders, profile, wallet, transactions, timers, pay>>

\* A clock step passes.
Elapse ==
  /\ now + ClockStep <= MaxSteps * ClockStep + MaxClock
  /\ now' = now + ClockStep
  /\ last' = NoLast
  /\ UNCHANGED <<profiles, walletRows, wallets, txs, orders, profile, wallet, transactions,
                 timers, pay>>

\* ---------------------------------------------------------------- session
\* WalletProvider useEffect([profile]), profile set: loadWalletData(), whose
\* loadTransactions() reads the `wallet` of the render before the sign-in.
Login(u) ==
  /\ profile = NULL
  /\ profile' = u
  /\ wallet' = LoadWallet(u, u, wallets)
  /\ transactions' = IF wallet = NoWallet THEN transactions
                     ELSE LoadTransactions(wallet.id, u, txs)
  /\ last' = NoLast
  /\ UNCHANGED <<profiles, walletRows, wallets, txs, orders, timers, pay, now>>

\* WalletProvider useEffect([profile]), profile null: setWallet(null),
\* setTransactions([]).
Logout ==
  /\ profile # NULL
  /\ profile' = NULL
  /\ wallet' = NoWallet
  /\ transactions' = <<>>
  /\ last' = NoLast
  /\ UNCHANGED <<profiles, walletRows, wallets, txs, orders, timers, pay, now>>

\* refreshWallet(): loadWallet() with the current profile.
RefreshWallet ==
  /\ profile # NULL
  /\ wallet' = LoadWallet(profile, profile, wallets)
  /\ last' = NoLast
  /\ UNCHANGED <<profiles, walletRows, wallets, txs, orders, profile, transactions, timers, pay, now>>

\* refreshTransactions(): loadTransactions() with the current profile and wallet.
RefreshTransactions ==
  /\ profile # NULL /\ wallet # NoWallet
  /\ transactions' = LoadTransactions(wallet.id, profile, txs)
  /\ last' = NoLast
  /\ UNCHANGED <<profiles, walletRows, wallets, txs, orders, profile, wallet, timers, pay, now>>

\* ------------------------------------------------------ fund and withdraw
\* The template strings `DEP_${Date.now()}`, `WTH_${Date.now()}` and
\* `PAY_${Date.now()}`: the prefix and the millisecond.
Reference(prefix, ms) == <<prefix, ms>>

\* transactions.reference text UNIQUE NOT NULL
ReferenceUnique(reference, t) == \A i \in DOMAIN t : t[i].reference # reference

\* INSERT INTO transactions, run as uid: the row appended, or the table as it
\* was when the policy's WITH CHECK, the UNIQUE constraint or the write itself
\* (fail) rejects it. orderId is metadata.orderId (0: none). No trigger fires
\* on INSERT.
InsertTransaction(uid, w, type, amount, status, reference, orderId, fail) ==
  IF fail \/ ~CanInsertTransaction(uid, w) \/ ~ReferenceUnique(reference, txs)
    THEN txs
    ELSE Append(txs, [wallet |-> w, type |-> type, amount |-> amount, status |-> status,
                      reference |-> reference, orderId |-> orderId])

\* The validation of the amount left out.
InvalidAmountOff(amount) == FALSE

\* The validation that looks at the profile only.
WalletNotFoundNoWalletTest == profile = NULL

\* The sufficiency test with the wallet's pending withdrawals reserved.
RECURSIVE PendingOutflow(_, _)
PendingOutflow(w, n) ==
  IF n = 0 THEN 0
  ELSE PendingOutflow(w, n - 1) +
       (IF txs[n].wallet = w /\ txs[n].type = "withdrawal" /\ txs[n].status = "pending"
          THEN 0 - txs[n].amount ELSE 0)
InsufficientBalanceReserving(amount) ==
  wallet.balance - PendingOutflow(wallet.id, Len(txs)) < amount

\* The three validations fundWallet, withdrawFunds and makePayment open with,
\* on the provider's state of the moment.
WalletNotFound == profile = NULL \/ wallet = NoWallet
InvalidAmount(amount) == amount <= 0
InsufficientBalance(amount) == wallet.balance < amount

\* What a fundWallet or withdrawFunds call returned: { success, error }, with
\* the transaction it created (0: none).
Called(op, error, tx, amount) ==
  [NoLast EXCEPT !.op = op, !.result = IF error = NULL THEN "success" ELSE "failure",
                 !.error = error, !.wallet = wallet.id, !.tx = tx, !.amount = amount]

\* fundWallet(amount, paymentMethod)
FundWallet(amount, fail) ==
  /\ Len(txs) < MaxTx
  /\ IF WalletNotFound
       THEN /\ last' = Called("fund", "Wallet not found", 0, 0)
            /\ UNCHANGED <<txs, timers>>
       ELSE IF InvalidAmount(amount)
       THEN /\ last' = Called("fund", "Amount must be greater than 0", 0, 0)
            /\ UNCHANGED <<txs, timers>>
       ELSE /\ txs' = InsertTransaction(profile, wallet.id, "deposit", amount, "pending",
                                        Reference("DEP", now), 0, fail)
            /\ IF txs' = txs
                 THEN /\ last' = Called("fund", "Failed to fund wallet", 0, 0)
                      /\ UNCHANGED timers
                 ELSE /\ last' = Called("fund", NULL, Len(txs'), amount)
                      /\ timers' = timers \cup {Len(txs')}
  /\ UNCHANGED <<profiles, walletRows, wallets, orders, profile, wallet, transactions, pay, now>>

\* withdrawFunds(amount, accountDetails)
WithdrawFunds(amount, fail) ==
  /\ Len(txs) < MaxTx
  /\ IF WalletNotFound
       THEN /\ last' = Called("withdraw", "Wallet not found", 0, 0)
            /\ UNCHANGED <<txs, timers>>
       ELSE IF InvalidAmount(amount)
       THEN /\ last' = Called("withdraw", "Amount must be greater than 0", 0, 0)
            /\ UNCHANGED <<txs, timers>>
       ELSE IF InsufficientBalance(amount)
       THEN /\ last' = Called("withdraw", "Insufficient balance", 0, 0)
            /\ UNCHANGED <<txs, timers>>
       ELSE /\ txs' = InsertTransaction(profile, wallet.id, "withdrawal", -amount, "pending",
                                        Reference("WTH", now), 0, fail)
            /\ IF txs' = txs
                 THEN /\ last' = Called("withdraw", "Failed to withdraw funds", 0, 0)
                      /\ UNCHANGED timers
                 ELSE /\ last' = Called("withdraw", NULL, Len(txs'), amount)
                      /\ timers' = timers \cup {Len(txs')}
  /\ UNCHANGED <<profiles, walletRows, wallets, orders, profile, wallet, transactions, pay, now>>

\* -------------------------------------------------------------- settlement
\* pay.base: the buyer's stored balance at the call, carried through every
\* balance change made meanwhile by another step, so that base - amount is
\* what the call itself should leave.
Carry(p, w, delta) ==
  IF p.pc # "idle" /\ p.wallet = w THEN [p EXCEPT !.base = @ + delta] ELSE p

\* The outcome of one UPDATE transactions SET status statement on t.
Updated(t, s, r) ==
  [NoLast EXCEPT !.op = "update", !.result = IF r.applied THEN "applied" ELSE "unchanged",
                 !.wallet = txs[t].wallet, !.tx = t, !.old = txs[t].status, !.new = s,
                 !.amount = txs[t].amount, !.before = wallets[txs[t].wallet]]

\* The callback that schedules itself again when its update changed nothing.
SettlementTimerRetrying(t) ==
  /\ t \in timers
  /\ LET r == UpdateTransaction(profile, t, "completed")
         w == txs[t].wallet
     IN  /\ txs' = r.txs
         /\ wallets' = r.wallets
         /\ wallet' = LoadWallet(w, profile, r.wallets)
         /\ transactions' = LoadTransactions(w, profile, r.txs)
         /\ pay' = Carry(pay, w, r.wallets[w] - wallets[w])
         /\ last' = Updated(t, "completed", r)
         /\ timers' = IF r.applied THEN timers \ {t} ELSE timers
  /\ UNCHANGED <<profiles, walletRows, orders, profile, now>>

\* The setTimeout callback of fundWallet / withdrawFunds for transaction t:
\* update({status: 'completed'}) as the session of the moment (its error is
\* not looked at), then loadWalletData() with the profile of the closure.
SettlementTimer(t) ==
  /\ t \in timers
  /\ LET r == UpdateTransaction(profile, t, "completed")
         w == txs[t].wallet
     IN  /\ txs' = r.txs
         /\ wallets' = r.wallets
         /\ wallet' = LoadWallet(w, profile, r.wallets)
         /\ transactions' = LoadTransactions(w, profile, r.txs)
         /\ pay' = Carry(pay, w, r.wallets[w] - wallets[w])
         /\ last' = Updated(t, "completed", r)
  /\ timers' = timers \ {t}
  /\ UNCHANGED <<profiles, walletRows, orders, profile, now>>

\* The delay a call's setTimeout is given, with none given.
DelayNone(type) == 0

\* The delay a call's setTimeout is given: 2000 in fundWallet, 3000 in
\* withdrawFunds.
Delay(type) == IF type = "deposit" THEN DepositDelay ELSE WithdrawDelay

\* When the timer of transaction t expires: setTimeout is called in the turn
\* in which Date.now() was read for the reference.
Due(t) == txs[t].reference[2] + Delay(txs[t].type)

\* The timer queue runs the callback of transaction t: its timer has expired,
\* and no outstanding timer expired before it.
TimerExpires(t) ==
  /\ t \in timers
  /\ Due(t) <= now
  /\ \A u \in timers : Due(t) <= Due(u)
  /\ SettlementTimer(t)

\* A status UPDATE on one's own transaction, which the policy "Users can
\* update own transactions" admits for any of the four statuses.
UpdateTransactionStatus(t, s) ==
  /\ profile # NULL
  /\ t \in DOMAIN txs
  /\ LET r == UpdateTransaction(profile, t, s)
         w == txs[t].wallet
     IN  /\ r.wallets[w] <= MaxBalance
         /\ txs' = r.txs
         /\ wallets' = r.wallets
         /\ pay' = Carry(pay, w, r.wallets[w] - wallets[w])
         /\ last' = Updated(t, s, r)
  /\ UNCHANGED <<profiles, walletRows, orders, profile, wallet, transactions, timers, now>>

\* ------------------------------------------------------------ makePayment
\* What a makePayment call returned, and what it had persisted by then.
Returned(p, result, error) ==
  [NoLast EXCEPT !.op = "pay", !.result = result, !.error = error, !.wallet = p.wallet,
                 !.tx = p.tx, !.order = p.order, !.amount = p.amount, !.before = p.base]

\* makePayment(productId, amount) up to its first write: the three early
\* returns, then SELECT * FROM products WHERE id = productId (.single()),
\* which errors when no row comes back.
PayCall(productId, amount) ==
  /\ pay.pc = "idle"
  /\ IF WalletNotFound
       THEN /\ last' = Returned(NoPay, "failure", "Wallet not found")
            /\ UNCHANGED pay
       ELSE IF InvalidAmount(amount)
       THEN /\ last' = Returned(NoPay, "failure", "Amount must be greater than 0")
            /\ UNCHANGED pay
       ELSE IF InsufficientBalance(amount)
       THEN /\ last' = Returned(NoPay, "failure", "Insufficient balance")
            /\ UNCHANGED pay
       ELSE IF productId \notin Products
       THEN /\ last' = Returned(NoPay, "failure", "Failed to make payment")
            /\ UNCHANGED pay
       ELSE /\ pay' = [pc |-> "order", profile |-> profile, wallet |-> wallet.id,
                       product |-> productId, amount |-> amount, order |-> 0, tx |-> 0,
                       base |-> wallets[wallet.id]]
            /\ last' = NoLast
  /\ UNCHANGED <<profiles, walletRows, wallets, txs, orders, profile, wallet, transactions, timers, now>>

\* INSERT INTO orders (buyer_id, product_id, amount, status 'pending'); an
\* error is thrown to the catch block, which returns failure.
PayInsertOrder(fail) ==
  /\ pay.pc = "order"
  /\ Len(orders) < MaxOrders
  /\ IF fail \/ ~CanCreateOrder(profile, pay.profile)
       THEN /\ pay' = NoPay
            /\ last' = Returned(pay, "failure", "Failed to make payment")
            /\ UNCHANGED orders
       ELSE /\ orders' = Append(orders, [buyer |-> pay.profile, product |-> pay.product,
                                         amount |-> pay.amount, status |-> "pending",
                                         payment_transaction_id |-> 0])
            /\ pay' = [pay EXCEPT !.pc = "tx", !.order = Len(orders')]
            /\ last' = NoLast
  /\ UNCHANGED <<profiles, walletRows, wallets, txs, profile, wallet, transactions, timers, now>>

\* The payment recorded a second time, as a refund on the wallet of the
\* product's owner.
PayInsertTransactionCrediting(fail) ==
  /\ pay.pc = "tx"
  /\ Len(txs) + 1 < MaxTx
  /\ txs' = IF fail THEN txs
            ELSE txs \o <<[wallet |-> pay.wallet, type |-> "payment", amount |-> -pay.amount,
                           status |-> "completed", reference |-> Reference("PAY", now),
                           orderId |-> pay.order],
                          [wallet |-> ProductOwner(pay.product), type |-> "refund",
                           amount |-> pay.amount, status |-> "completed",
                           reference |-> Reference("PAY", now), orderId |-> pay.order]>>
  /\ IF txs' = txs
       THEN /\ pay' = NoPay
            /\ last' = Returned(pay, "failure", "Failed to make payment")
       ELSE /\ pay' = [pay EXCEPT !.pc = "update", !.tx = Len(txs) + 1]
            /\ last' = NoLast
  /\ UNCHANGED <<profiles, walletRows, wallets, orders, profile, wallet, transactions, timers, now>>

\* INSERT INTO transactions (type 'payment', amount -amount, status
\* 'completed'); an error is thrown to the catch block.
PayInsertTransaction(fail) ==
  /\ pay.pc = "tx"
  /\ Len(txs) < MaxTx
  /\ txs' = InsertTransaction(profile, pay.wallet, "payment", -pay.amount, "completed",
                              Reference("PAY", now), pay.order, fail)
  /\ IF txs' = txs
       THEN /\ pay' = NoPay
            /\ last' = Returned(pay, "failure", "Failed to make payment")
       ELSE /\ pay' = [pay EXCEPT !.pc = "update", !.tx = Len(txs')]
            /\ last' = NoLast
  /\ UNCHANGED <<profiles, walletRows, wallets, orders, profile, wallet, transactions, timers, now>>

\* The order update with the transaction reference left out of it.
UpdateOrderNoRef(uid, o, t, fail) ==
  IF fail \/ ~CanUpdateOrder(uid, orders[o].product)
    THEN orders
    ELSE [orders EXCEPT ![o].status = "paid"]

\* The order update without its WHERE id: every order the policy lets uid
\* update is marked.
UpdateOrderEvery(uid, o, t, fail) ==
  IF fail THEN orders
  ELSE [i \in DOMAIN orders |->
          IF CanUpdateOrder(uid, orders[i].product)
            THEN [orders[i] EXCEPT !.payment_transaction_id = t, !.status = "paid"]
            ELSE orders[i]]

\* UPDATE orders SET payment_transaction_id, status = 'paid' WHERE id, run as
\* uid: the row changes only under the UPDATE policy and when the write lands.
UpdateOrder(uid, o, t, fail) ==
  IF fail \/ ~CanUpdateOrder(uid, orders[o].product)
    THEN orders
    ELSE [orders EXCEPT ![o].payment_transaction_id = t, ![o].status = "paid"]

\* makePayment with the order update's result looked at and thrown like the
\* results of the two inserts.
PayUpdateOrderChecked(fail) ==
  /\ pay.pc = "update"
  /\ orders' = UpdateOrder(profile, pay.order, pay.tx, fail)
  /\ wallet' = IF orders' = orders THEN wallet ELSE LoadWallet(pay.profile, profile, wallets)
  /\ transactions' = IF orders' = orders THEN transactions
                     ELSE LoadTransactions(pay.wallet, profile, txs)
  /\ pay' = NoPay
  /\ last' = Returned(pay, IF orders' = orders THEN "failure" ELSE "success", NULL)
  /\ UNCHANGED <<profiles, walletRows, wallets, txs, profile, timers, now>>

\* The rest of makePayment: the order update, whose result is not looked at,
\* loadWalletData() with the profile of the closure, return success.
PayUpdateOrder(fail) ==
  /\ pay.pc = "update"
  /\ orders' = UpdateOrder(profile, pay.order, pay.tx, fail)
  /\ wallet' = LoadWallet(pay.profile, profile, wallets)
  /\ transactions' = LoadTransactions(pay.wallet, profile, txs)
  /\ pay' = NoPay
  /\ last' = Returned(pay, "success", NULL)
  /\ UNCHANGED <<profiles, walletRows, wallets, txs, profile, timers, now>>

\* ---------------------------------------------------------- specifications
AppNext ==
  \/ Tick
  \/ \E u \in Users : Login(u)
  \/ Logout
  \/ RefreshWallet
  \/ RefreshTransactions
  \/ \E a \in Amounts, fail \in BOOLEAN : FundWallet(a, fail)
  \/ \E a \in Amounts, fail \in BOOLEAN : WithdrawFunds(a, fail)
  \/ \E t \in timers : SettlementTimer(t)
  \/ \E p \in ProductIds, a \in Amounts : PayCall(p, a)
  \/ \E fail \in BOOLEAN : PayInsertOrder(fail)
  \/ \E fail \in BOOLEAN : PayInsertTransaction(fail)
  \/ \E fail \in BOOLEAN : PayUpdateOrder(fail)

\* The client's operations alone.
Spec == Init /\ [][AppNext]_vars

\* One customer's session, without purchases, and with it any status update
\* the transactions policy admits, on a ledger of at most MaxSqlTx
\* transactions.
SqlNext ==
  \/ Tick
  \/ Login("c1")
  \/ RefreshWallet
  \/ \E a \in Amounts, fail \in BOOLEAN : FundWallet(a, fail) /\ Len(txs') <= MaxSqlTx
  \/ \E a \in Amounts, fail \in BOOLEAN : WithdrawFunds(a, fail) /\ Len(txs') <= MaxSqlTx
  \/ \E t \in timers : SettlementTimer(t)
  \/ \E t \in DOMAIN txs, s \in Statuses : UpdateTransactionStatus(t, s)

SpecSql == Init /\ [][SqlNext]_vars

\* One customer's deposits and withdrawals, every setTimeout callback run in
\* the end.
TimersNext ==
  \/ Tick
  \/ Login("c1")
  \/ RefreshWallet
  \/ \E a \in Amounts, fail \in BOOLEAN : FundWallet(a, fail)
  \/ \E a \in Amounts, fail \in BOOLEAN : WithdrawFunds(a, fail)
  \/ \E t \in timers : SettlementTimer(t)

\* Sign-ups on the database as the setup script leaves it, the statements on
\* wallets that a user may try, and deposits.
ProfilesNext ==
  \/ Tick
  \/ \E u \in Users : CreateProfile(u)
  \/ InsertOwnWallet
  \/ DeleteOwnWallet
  \/ \E b \in Amounts : UpdateOwnWallet(b)
  \/ \E u \in profiles : Login(u)
  \/ Logout
  \/ \E a \in Amounts, fail \in BOOLEAN : FundWallet(a, fail)
  \/ \E t \in timers : SettlementTimer(t)

SpecProfiles == InitSchema /\ [][ProfilesNext]_vars

\* One customer's deposits and withdrawals on the clock: the callbacks run
\* when the timer queue runs them.
DelaysNext ==
  \/ Tick
  \/ Elapse
  \/ Login("c1")
  \/ \E a \in Amounts : FundWallet(a, FALSE)
  \/ \E a \in Amounts : WithdrawFunds(a, FALSE)
  \/ \E t \in timers : TimerExpires(t)

SpecDelays == Init /\ [][DelaysNext]_vars

SpecTimers ==
  Init /\ [][TimersNext]_vars /\ WF_vars(\E t \in timers : SettlementTimer(t))

\* ================================================================= claims
RECURSIVE SumCompletedUpTo(_, _)
SumCompletedUpTo(w, n) ==
  IF n = 0 THEN 0
  ELSE SumCompletedUpTo(w, n - 1) +
       (IF txs[n].wallet = w /\ txs[n].status = "completed" THEN txs[n].amount ELSE 0)

\* The sum of the signed amounts of wallet w's completed transactions.
SumCompleted(w) == SumCompletedUpTo(w, Len(txs))

PaySucceeded == last.op = "pay" /\ last.result = "success"
PayFailed == last.op = "pay" /\ last.result = "failure"

\* C1: in every reachable state each wallet's stored balance equals the sum
\* of the signed amounts of its completed transactions.
C1_BalanceIsSumOfCompleted == \A w \in Users : wallets[w] = SumCompleted(w)

\* C2: in every reachable state every wallet's stored balance is >= 0, also
\* when several withdrawals were accepted against the same balance and are
\* later settled.
C2_BalanceNonNegative == \A w \in Users : wallets[w] >= 0

\* Two withdrawals of one wallet, both past their timers: one completed, the
\* other just refused by the CHECK, which its amount would have violated.
C2_OverdrawnSettlement ==
  \E t1, t2 \in DOMAIN txs :
    /\ t1 # t2
    /\ txs[t1].type = "withdrawal" /\ txs[t2].type = "withdrawal"
    /\ txs[t1].wallet = txs[t2].wallet
    /\ txs[t1].status = "completed" /\ txs[t2].status = "pending"
    /\ timers \cap {t1, t2} = {}
    /\ last.op = "update" /\ last.tx = t2 /\ last.result = "unchanged"
    /\ profile = txs[t2].wallet
    /\ wallets[txs[t2].wallet] + txs[t2].amount < 0

\* C3: when pay returns success for a wallet whose stored balance was b, the
\* stored balance afterwards is b - amount, and a completed payment
\* transaction of amount -amount exists for that wallet.
C3_PayDebitsBalance ==
  PaySucceeded =>
    /\ wallets[last.wallet] = last.before - last.amount
    /\ last.tx \in DOMAIN txs
    /\ txs[last.tx].wallet = last.wallet
    /\ txs[last.tx].type = "payment"
    /\ txs[last.tx].status = "completed"
    /\ txs[last.tx].amount = -last.amount

\* What a pay call (order o, transaction t, wallet w with balance base at the
\* call) has persisted: all of it, or none of it.
PayAll(o, t, w, base, amount) ==
  /\ o \in DOMAIN orders /\ orders[o].status = "paid"
  /\ t \in DOMAIN txs /\ txs[t].status = "completed"
  /\ wallets[w] = base - amount
PayNothing(o, t, w, base) == o = 0 /\ t = 0 /\ wallets[w] = base

\* C4: pay is all-or-nothing in every observable state, between its writes
\* and after a failed write included: the order is paid, the payment is
\* completed and the balance is decremented, or nothing is persisted.
C4_PayAllOrNothing ==
  /\ pay.pc # "idle" =>
       \/ PayAll(pay.order, pay.tx, pay.wallet, pay.base, pay.amount)
       \/ PayNothing(pay.order, pay.tx, pay.wallet, pay.base)
  /\ last.op = "pay" /\ last.wallet # NULL =>
       \/ PayAll(last.order, last.tx, last.wallet, last.before, last.amount)
       \/ PayNothing(last.order, last.tx, last.wallet, last.before)

\* C5: in every reachable state, every order whose status is paid has a
\* settling-transaction reference to an existing, completed transaction.
C5_PaidOrderHasCompletedTx ==
  \A o \in DOMAIN orders :
    orders[o].status = "paid" =>
      /\ orders[o].payment_transaction_id \in DOMAIN txs
      /\ txs[orders[o].payment_transaction_id].status = "completed"

\* pay has just returned with its order paid (its order update ran under the
\* session of the product's owner).
C5_SomeOrderPaid ==
  PaySucceeded /\ last.order \in DOMAIN orders /\ orders[last.order].status = "paid"

\* C6: whenever pay returns success, the order it created is persisted with
\* status paid and refers to the payment transaction of the same call.
C6_PaySuccessPersistsPaidOrder ==
  PaySucceeded =>
    /\ last.order \in DOMAIN orders
    /\ orders[last.order].status = "paid"
    /\ orders[last.order].payment_transaction_id = last.tx

\* C7: whenever pay returns failure because a backend write failed, no
\* payment transaction has been persisted for that call, and an order the
\* call created has status pending.
C7_PayFailurePersistsNoTx ==
  PayFailed =>
    /\ last.tx = 0
    /\ last.order # 0 =>
         /\ orders[last.order].status = "pending"
         /\ \A t \in DOMAIN txs : txs[t].orderId # last.order

\* pay has returned failure after its order was created.
C7_FailedAfterOrder == PayFailed /\ last.order \in DOMAIN orders

StatusUpdated == last.op = "update"
Reversing == {"failed", "cancelled"}

\* C8: setting a transaction's status to completed when it is already
\* completed leaves the wallet balance unchanged.
C8_CompletedTwiceNoEffect ==
  StatusUpdated /\ last.old = "completed" /\ last.new = "completed" =>
    wallets[last.wallet] = last.before

\* An update to completed has been applied to a completed transaction.
C8_CompletedAgain ==
  /\ StatusUpdated /\ last.result = "applied"
  /\ last.old = "completed" /\ last.new = "completed"

\* C9: when a completed transaction of amount a is moved to failed or
\* cancelled, the balance changes by exactly -a; the same update on the now
\* failed or cancelled transaction leaves the balance unchanged.
C9_ReversalOnce ==
  StatusUpdated =>
    /\ last.result = "applied" /\ last.old = "completed" /\ last.new \in Reversing =>
         /\ txs[last.tx].status = last.new
         /\ wallets[last.wallet] = last.before - last.amount
    /\ last.old \in Reversing /\ last.new \in Reversing =>
         wallets[last.wallet] = last.before

\* A completed transaction has just been moved to failed or cancelled.
C9_Reversed ==
  /\ StatusUpdated /\ last.result = "applied"
  /\ last.old = "completed" /\ last.new \in Reversing

ValidTransitions ==
  {<<"pending", "completed">>, <<"pending", "failed">>, <<"pending", "cancelled">>,
   <<"completed", "failed">>, <<"completed", "cancelled">>}

\* C10: a transaction's status changes only along pending->completed,
\* pending->failed, pending->cancelled, completed->failed and
\* completed->cancelled; any other requested update is rejected and leaves
\* the status and the wallet balance unchanged.
C10_OnlyValidTransitions ==
  StatusUpdated /\ <<last.old, last.new>> \notin ValidTransitions =>
    /\ txs[last.tx].status = last.old
    /\ wallets[last.wallet] = last.before

\* C11: when the settlement timer of a transaction fires after the
\* transaction was moved to failed or cancelled, the firing changes neither
\* the transaction's status nor the wallet balance.
C11_TimerOnResolvedIsNoOp ==
  [][\A t \in timers :
       SettlementTimer(t) /\ txs[t].status \in Reversing =>
         txs'[t].status = txs[t].status /\ wallets' = wallets]_vars

FundSucceeded == last.op = "fund" /\ last.result = "success"

C13_PendingEventuallyCompleted ==
  \A t \in 1..MaxTx :
    (t \in DOMAIN txs /\ txs[t].status = "pending") ~>
      (t \in DOMAIN txs /\ txs[t].status = "completed")

\* A call that failed left the tables and the timers as they were.
NothingPersisted == UNCHANGED <<wallets, txs, orders, timers>>

\* C14: fund, withdraw and pay called with amount <= 0 each return failure
\* and persist nothing: no transaction, no order, no timer, no balance change.
C14_NonPositiveAmountRefused ==
  [][\A a \in Amounts, f \in BOOLEAN, p \in ProductIds :
       a <= 0 =>
         /\ FundWallet(a, f) => last'.result = "failure" /\ NothingPersisted
         /\ WithdrawFunds(a, f) => last'.result = "failure" /\ NothingPersisted
         /\ PayCall(p, a) =>
              last'.result = "failure" /\ pay'.pc = "idle" /\ NothingPersisted]_vars

\* A call has just been refused for its amount, with a wallet resolved.
C14_AmountRefused ==
  /\ last.op \in {"fund", "withdraw", "pay"}
  /\ last.result = "failure" /\ last.error = "Amount must be greater than 0"
  /\ ~WalletNotFound

\* C15: a withdraw or pay whose amount is greater than the wallet's stored
\* balance at the call returns failure, persists no transaction or order and
\* leaves the balance unchanged, whatever was settled or refreshed before.
C15_OverBalanceRefused ==
  [][\A a \in Amounts, f \in BOOLEAN, p \in ProductIds :
       ~WalletNotFound /\ a > wallets[wallet.id] =>
         /\ WithdrawFunds(a, f) => last'.result = "failure" /\ NothingPersisted
         /\ PayCall(p, a) =>
              last'.result = "failure" /\ pay'.pc = "idle" /\ NothingPersisted]_vars

\* C16: fund, withdraw and pay called with no profile or no wallet resolved
\* each return the failure "Wallet not found" and persist nothing.
C16_NoWalletRefused ==
  [][\A a \in Amounts, f \in BOOLEAN, p \in ProductIds :
       profile = NULL \/ wallet = NoWallet =>
         /\ FundWallet(a, f) \/ WithdrawFunds(a, f) \/ PayCall(p, a) =>
              /\ last'.result = "failure" /\ last'.error = "Wallet not found"
              /\ pay'.pc = pay.pc
              /\ NothingPersisted]_vars

\* A call has just been refused with a profile signed in and no wallet
\* resolved for it.
C16_RefusedSignedIn ==
  /\ last.op \in {"fund", "withdraw", "pay"}
  /\ last.result = "failure" /\ last.error = "Wallet not found"
  /\ profile # NULL /\ wallet = NoWallet

\* C17: every transaction's kind is deposit or refund exactly when its amount
\* is > 0, and withdrawal or payment exactly when its amount is < 0.
C17_SignLaw ==
  \A t \in DOMAIN txs :
    /\ txs[t].type \in {"deposit", "refund"} <=> txs[t].amount > 0
    /\ txs[t].type \in {"withdrawal", "payment"} <=> txs[t].amount < 0

\* A deposit, a withdrawal and a payment are on the ledger.
C17_EveryKindCreated ==
  \A k \in {"deposit", "withdrawal", "payment"} : \E t \in DOMAIN txs : txs[t].type = k

\* C18: every fund, withdraw or pay call that passes validation generates a
\* reference different from that of every existing transaction, two calls of
\* one kind at the same clock instant included.
C18_ReferenceFresh ==
  [][\A a \in Amounts, f \in BOOLEAN :
       /\ FundWallet(a, f) /\ ~WalletNotFound /\ ~InvalidAmount(a) =>
            ReferenceUnique(Reference("DEP", now), txs)
       /\ WithdrawFunds(a, f) /\ ~WalletNotFound /\ ~InvalidAmount(a)
                              /\ ~InsufficientBalance(a) =>
            ReferenceUnique(Reference("WTH", now), txs)
       /\ PayInsertTransaction(f) => ReferenceUnique(Reference("PAY", now), txs)]_vars

\* The projections the provider exposes are the caller's rows as stored.
ProjectionsCurrent ==
  /\ wallet = LoadWallet(last.wallet, last.wallet, wallets)
  /\ transactions = LoadTransactions(last.wallet, last.wallet, txs)

\* C20: once fund, withdraw, pay or a settlement has returned, the exposed
\* wallet and transaction list are the caller's rows as stored; the list
\* holds a new pending deposit or withdrawal as soon as the call returned.
C20_ProjectionsFollowStore ==
  /\ last.op \in {"fund", "withdraw", "pay", "update"} /\ last.wallet = profile
       /\ (last.op \in {"fund", "withdraw", "pay"} => last.result = "success")
       => ProjectionsCurrent
  /\ last.op \in {"fund", "withdraw"} /\ last.result = "success" =>
       \E i \in DOMAIN transactions : transactions[i].id = last.tx

\* C19: each existing profile owns exactly one wallet: a wallet with balance
\* 0 is created when the profile is created, no second wallet can be created
\* for its owner, and the wallet is not deleted while the profile exists.
C19_OneWalletPerProfile ==
  /\ \A u \in Users : walletRows[u] = IF u \in profiles THEN 1 ELSE 0
  /\ last.op = "createProfile" =>
       last.result = "applied" /\ last.wallet \in profiles /\ wallets[last.wallet] = 0
  /\ last.op \in {"insertWallet", "deleteWallet"} => last.result = "unchanged"

\* A signed-in user has just tried to insert a second wallet.
C19_SecondWalletRefused ==
  /\ last.op = "insertWallet" /\ last.result = "unchanged"
  /\ last.wallet \in profiles /\ walletRows[last.wallet] = 1

\* Some transaction's status has changed in the step.
StatusTransition == \E t \in DOMAIN txs : txs'[t].status # txs[t].status

\* A step of makePayment has been taken.
PayStep == pay'.pc # pay.pc \/ last'.op = "pay"

\* C21: a wallet's stored balance changes only as the effect of a
\* transaction status transition or of the pay path; nothing else a caller
\* can do (fund, withdraw, a read, a direct wallet update) changes it.
C21_BalanceChangesOnlyByLedger ==
  [][wallets' # wallets => StatusTransition \/ PayStep]_vars

\* C22: once a transaction is created, its kind, amount and wallet reference
\* never change; a later step alters at most its status.
C22_TransactionImmutable ==
  [][\A t \in DOMAIN txs :
       /\ t \in DOMAIN txs'
       /\ txs'[t].type = txs[t].type
       /\ txs'[t].amount = txs[t].amount
       /\ txs'[t].wallet = txs[t].wallet
       /\ txs'[t].reference = txs[t].reference]_vars

\* A settlement has just completed a transaction whose amount is not 0.
C22_SettledWithAmount ==
  /\ StatusUpdated /\ last.result = "applied"
  /\ txs[last.tx].status = "completed" /\ txs[last.tx].amount # 0
  /\ last.tx \notin timers

\* Wallet w has a withdrawal that is still pending.
WithdrawalPending(w) ==
  \E t \in DOMAIN txs :
    txs[t].wallet = w /\ txs[t].type = "withdrawal" /\ txs[t].status = "pending"

C24_OneSettlementAttempt ==
  [][/\ \A a \in Amounts, f \in BOOLEAN :
          FundWallet(a, f) \/ WithdrawFunds(a, f) =>
            IF last'.result = "success"
              THEN /\ last'.tx = Len(txs) + 1 /\ last'.tx \notin timers
                   /\ timers' = timers \cup {last'.tx}
              ELSE timers' = timers
     /\ PayStep => timers' = timers
     /\ last'.op = "update" => last'.tx \in timers /\ timers' = timers \ {last'.tx}
     /\ timers' \ timers \subseteq DOMAIN txs' \ DOMAIN txs]_vars

\* A settlement attempt has just changed nothing, and its transaction is
\* left pending with no timer outstanding.
C24_AttemptNotRetried ==
  /\ StatusUpdated /\ last.result = "unchanged"
  /\ txs[last.tx].status = "pending"
  /\ last.tx \notin timers

\* The millisecond at which transaction t was created.
Created(t) == txs[t].reference[2]

Buyer ==
  IF pay.pc # "idle" THEN pay.wallet
  ELSE IF wallet # NoWallet THEN wallet.id ELSE NULL

\* C26: no step of pay changes a wallet other than the buyer's: the balance
\* and the transactions of every other wallet, the seller's included, are
\* after the step what they were before it.
C26_PayTouchesBuyerOnly ==
  [][PayStep =>
       \A w \in Users \ {Buyer} :
         /\ wallets'[w] = wallets[w]
         /\ TransactionsOf(w, txs', Len(txs')) = TransactionsOf(w, txs, Len(txs))]_vars

\* pay has just returned success with its payment on the buyer's wallet, and
\* the wallet of the product's owner is empty.
C26_PaidSellerUntouched ==
  /\ PaySucceeded /\ last.tx \in DOMAIN txs
  /\ txs[last.tx].wallet = last.wallet
  /\ \E p \in Products :
       /\ ProductOwner(p) # last.wallet
       /\ wallets[ProductOwner(p)] = 0
       /\ TransactionsOf(ProductOwner(p), txs, Len(txs)) = <<>>

\* C27: no order is persisted for a buyer whose role is not customer: a pay
\* call by a business user returns failure, having created neither an order
\* nor a payment transaction.
C27_OrdersOfCustomersOnly ==
  /\ \A o \in DOMAIN orders : Role(orders[o].buyer) = "customer"
  /\ pay.pc # "idle" /\ Role(pay.profile) # "customer" =>
       pay.pc = "order" /\ pay.order = 0 /\ pay.tx = 0
  /\ last.op = "pay" /\ last.wallet # NULL /\ Role(last.wallet) # "customer" =>
       last.result = "failure" /\ last.order = 0 /\ last.tx = 0

\* A business user's pay, of an amount its balance covers, has just been
\* refused at the insert of the order.
C27_BusinessPayRefused ==
  /\ PayFailed /\ last.error = "Failed to make payment"
  /\ last.wallet # NULL /\ Role(last.wallet) = "business"
  /\ profile = last.wallet
  /\ last.amount > 0 /\ last.amount <= wallets[last.wallet]
  /\ orders = <<>>

\* C28: while a profile is signed in the exposed wallet is that profile's own
\* wallet, and with no profile the exposed wallet is null and the transaction
\* list is empty, also after a settlement timer set under an earlier profile
\* has fired.
C28_ExposedWalletIsOwn ==
  /\ profile # NULL => wallet # NoWallet /\ wallet.id = profile
  /\ profile = NULL => wallet = NoWallet /\ transactions = <<>>

\* Every scheduled timer has fired, the last step was the last callback with
\* its refresh, and no call is under way.
TimersDone == StatusUpdated /\ timers = {} /\ pay.pc = "idle"

\* C29: once every scheduled settlement timer has fired and its refresh has
\* finished, the exposed wallet and transaction list of the signed-in profile
\* are the stored balance and the stored transactions of its wallet.
C29_ProjectionConverges ==
  TimersDone /\ profile # NULL =>
    /\ wallet = LoadWallet(profile, profile, wallets)
    /\ transactions = LoadTransactions(profile, profile, txs)

\* C30: every payment transaction was created for exactly one order, of the
\* same buyer and with amount = -(order amount), and an order's
\* payment_transaction_id, when set, is the payment transaction created for
\* that order, so that no two orders share one.
C30_PaymentMatchesOrder ==
  /\ \A t \in DOMAIN txs :
       txs[t].type = "payment" =>
         /\ txs[t].orderId \in DOMAIN orders
         /\ orders[txs[t].orderId].buyer = txs[t].wallet
         /\ txs[t].amount = -orders[txs[t].orderId].amount
         /\ \A u \in DOMAIN txs : txs[u].type = "payment" /\ txs[u].orderId = txs[t].orderId => u = t
  /\ \A o \in DOMAIN orders :
       orders[o].payment_transaction_id # 0 =>
         /\ orders[o].payment_transaction_id \in DOMAIN txs
         /\ txs[orders[o].payment_transaction_id].type = "payment"
         /\ txs[orders[o].payment_transaction_id].orderId = o
  /\ \A o1, o2 \in DOMAIN orders :
       /\ orders[o1].payment_transaction_id # 0
       /\ orders[o1].payment_transaction_id = orders[o2].payment_transaction_id
       => o1 = o2

\* Two orders, each with the reference to its own payment transaction.
C30_TwoOrdersSettled ==
  /\ Len(orders) = 2
  /\ \A o \in DOMAIN orders :
       /\ orders[o].payment_transaction_id \in DOMAIN txs
       /\ txs[orders[o].payment_transaction_id].type = "payment"
  /\ orders[1].payment_transaction_id # orders[2].payment_transaction_id

====
